---- MODULE Spec2Model ----
(***************************************************************************)
(* Model of blender.py: the script that builds a cortical mesh inside the  *)
(* host 3D application, registers the frame callback my_handler, and the   *)
(* callback itself (sorted search, linear interpolation, colour mapping,   *)
(* write to the colour layer).                                             *)
(*                                                                         *)
(* Numbers.  Times are kept in units of 0.01 s, so that the playback time  *)
(* t = 0.01 * frame_current / fps is the rational frame_current / fps.     *)
(* Every real number of the program is an exact rational [num, den] with   *)
(* den > 0; floating-point rounding is not modelled.  Colour channels are  *)
(* integers in 0..ChanOne, ChanOne standing for the channel value 1.0.     *)
(* Indices are zero-based as in the source.                                *)
(***************************************************************************)
EXTENDS Integers, Sequences, FiniteSets, TLC

(* ------------------------------ bounds --------------------------------- *)
MaxFaces == 2       \* triangles per hemisphere, geometry family
MaxTimes == 3       \* samples of the source estimate, data family
MaxFrame == 5       \* largest frame number the host plays
MaxRuns == 2        \* runs of the script in one host session

Frames == (0 - 1) .. MaxFrame
FpsSet == {1, 2}
TminSet == {0 - 1, 1}
TstepSet == {1, 2}
Shapes == {"rise", "fall", "alt"}
VertCounts == {3, 4}             \* vertices per hemisphere, geometry family
PriorHandlers == {<<>>, <<0>>}   \* frame_change_pre before the first run

(* ------------------------- arithmetic helpers -------------------------- *)
Min(a, b) == IF a <= b THEN a ELSE b

Max(a, b) == IF a >= b THEN a ELSE b

Rat(n, d) == [num |-> n, den |-> d]

RatLe(x, y) == x.num * y.den <= y.num * x.den

RatEq(x, y) == x.num * y.den = y.num * x.den

(* ------------------------------ inputs --------------------------------- *)
\* One time course of n samples for one vertex.
Series(shape, n) ==
    [i \in 0 .. n - 1 |->
        CASE shape = "rise" -> i
          [] shape = "fall" -> n - 1 - i
          [] OTHER -> i % 2]

\* The rows of a hemisphere's vertex array: vertex i of hemisphere h.
Verts(h, n) == [i \in 1 .. n |-> <<h, i - 1>>]

\* Triangles over n vertices (one orientation per vertex triple).
Triangles(n) ==
    {<<i, j, k>> : i \in 0 .. n - 1, j \in 0 .. n - 1, k \in 0 .. n - 1}
    \ {tr \in (0 .. n - 1) \X (0 .. n - 1) \X (0 .. n - 1) :
          ~(tr[1] < tr[2] /\ tr[2] < tr[3])}

TriLess(a, b) ==
    \/ a[1] < b[1]
    \/ a[1] = b[1] /\ a[2] < b[2]
    \/ a[1] = b[1] /\ a[2] = b[2] /\ a[3] < b[3]

\* Triangle lists of at most m distinct triangles, in ascending order.
FaceLists(n, m) ==
    {fl \in UNION {[1 .. l -> Triangles(n)] : l \in 0 .. m} :
        \A a \in 1 .. Len(fl) - 1 : TriLess(fl[a], fl[a + 1])}

(* --------------------------- the script -------------------------------- *)
\* coords = np.vstack((coords_lh, coords_rh))
Coords(clh, crh) == clh \o crh

FacesNoOffset(flh, frh, nlh) == flh \o frh

\* faces = np.vstack((faces_lh, faces_rh + len(coords_lh)))
Faces(flh, frh, nlh) ==
    flh \o [f \in 1 .. Len(frh) |-> [k \in 1 .. 3 |-> frh[f][k] + nlh]]

\* stc.times
Times(s) == [i \in 0 .. s.n_times - 1 |-> s.tmin + i * s.tstep]

\* The colour map's lookup table (RGBA), lowest value first; it is
\* transparent at the low end.
LUT == << <<0, 0, 4, 0>>, <<1, 0, 3, 1>>, <<3, 2, 1, 3>>, <<4, 4, 0, 4>> >>

ChanOne == 4

\* norm = mpl.colors.Normalize(vmin=lims[0], vmax=lims[2]), applied to x
Norm(x, l) == Rat(x.num - l[1] * x.den, (l[3] - l[1]) * x.den)

\* cmap(y): entry floor(y * N) of the table, values below 0 taking the first
\* entry and values from 1 up the last.
Cmap(y) ==
    LET N == Len(LUT)
        q == (y.num * N) \div y.den
    IN LUT[Max(0, Min(N - 1, q)) + 1]

\* mapper.to_rgba(x) for one value
ToRgba(x, l) == Cmap(Norm(x, l))

(* --------------------------- my_handler -------------------------------- *)
\* t = 0.01 * scene.frame_current / scene.render.fps
CurrentTime(frame, r) == Rat(frame, r)

\* np.searchsorted(a, t): the leftmost insertion index in the sorted a
SearchSorted(a, t) == Cardinality({i \in DOMAIN a : a[i] * t.den < t.num})

\* frame_right = min(n_times - 1, np.searchsorted(stc.times, t))
FrameRight(s, t) == Min(s.n_times - 1, SearchSorted(Times(s), t))

FrameLeftSame(fr) == fr

FrameLeftTwoBack(fr) == Max(0, fr - 2)

\* frame_left = max(0, frame_right - 1)
FrameLeft(fr) == Max(0, fr - 1)

InterpNoStep(s, t, fl) == Rat(t.num - Times(s)[fl] * t.den, t.den)

\* interp = (t - stc.times[frame_left]) / stc.tstep
Interp(s, t, fl) == Rat(t.num - Times(s)[fl] * t.den, s.tstep * t.den)

\* interp_data = (1 - interp) * stc.data[:, frame_left]
\* interp_data += interp * stc.data[:, frame_right]
InterpData(d, fl, fr, w) ==
    [v \in DOMAIN d |->
        Rat((w.den - w.num) * d[v][fl] + w.num * d[v][fr], w.den)]

DataInPlace(d, fl, fr) ==
    [v \in DOMAIN d |-> [d[v] EXCEPT ![fl] = d[v][fl] + d[v][fr]]]

\* stc.data after the two statements above: the product is a new array, so
\* the += touches that array and the matrix keeps its contents.
DataAfter(d, fl, fr) == d

AlphaKept(c) == c

\* vertex_colors[:, 3] = 1 - vertex_colors[:, 3], for one colour
InvertAlpha(c) == <<c[1], c[2], c[3], ChanOne - c[4]>>

\* vertex_colors after lines 111-112
VertexColors(x, l) == [v \in DOMAIN x |-> InvertAlpha(ToRgba(x[v], l))]

FaceColorsReversed(vc, fs) ==
    [f \in 1 .. Len(fs) |-> [k \in 1 .. 3 |-> vc[fs[f][4 - k]]]]

\* face_colors = vertex_colors[faces]
FaceColors(vc, fs) ==
    [f \in 1 .. Len(fs) |-> [k \in 1 .. 3 |-> vc[fs[f][k]]]]

\* face_colors.ravel(): row-major flattening of the (F, 3, 4) array
Ravel(fc) ==
    [j \in 1 .. 12 * Len(fc) |->
        fc[((j - 1) \div 12) + 1][(((j - 1) % 12) \div 4) + 1][((j - 1) % 4) + 1]]

\* color_layer.data.foreach_set('color', flat): element l of the layer takes
\* the l-th group of four values
ForeachSet(flat) ==
    [l \in 1 .. (Len(flat) \div 4) |->
        <<flat[4 * l - 3], flat[4 * l - 2], flat[4 * l - 1], flat[4 * l]>>]

\* One call of my_handler on a scene at (frame, r): what it prints, the
\* interpolated data, the matrix afterwards and the colour layer it writes.
MyHandler(s, l, fs, frame, r) ==
    LET t == CurrentTime(frame, r)
        fr == FrameRight(s, t)
        fl == FrameLeft(fr)
        w == Interp(s, t, fl)
        x == InterpData(s.data, fl, fr, w)
    IN [printed |-> [t |-> t, frame_left |-> fl, frame_right |-> fr, interp |-> w],
        interp_data |-> x,
        data |-> DataAfter(s.data, fl, fr),
        layer |-> ForeachSet(Ravel(FaceColors(VertexColors(x, l), fs)))]

(* ------------------------------ state ---------------------------------- *)
VARIABLES
    coords_lh, faces_lh, coords_rh, faces_rh,  \* the two hemispheres as loaded
    stc,            \* the source estimate: tmin, tstep, n_times, data
    lims,           \* the colour-map limits
    coords, faces,  \* the merged geometry given to the mesh
    mesh,           \* the mesh the names mesh/color_layer are bound to (0: none)
    color_layer,    \* the colour of each triangle corner of that mesh
    updated,        \* mesh.update() has been called on it
    handlers,       \* bpy.app.handlers.frame_change_pre (0: someone else's)
    frame_current, fps,   \* the scene
    printed,        \* the last line my_handler printed
    interp_data,    \* the last interp_data my_handler computed
    n_updates       \* calls of my_handler made by the last frame-change event

vars == <<coords_lh, faces_lh, coords_rh, faces_rh, stc, lims, coords, faces,
          mesh, color_layer, updated, handlers, frame_current, fps, printed,
          interp_data, n_updates>>

NoPrint == [t |-> Rat(0, 1), frame_left |-> 0, frame_right |-> 0, interp |-> Rat(0, 1)]

\* The host session before the script runs.
InitHost ==
    /\ coords = <<>> /\ faces = <<>>
    /\ mesh = 0 /\ color_layer = <<>> /\ updated = FALSE
    /\ handlers \in PriorHandlers
    /\ frame_current = 1 /\ fps = 1
    /\ printed = NoPrint /\ interp_data = <<>> /\ n_updates = 0

\* Data family: one triangle, every combination of time courses and timing.
InitData ==
    /\ coords_lh = Verts("lh", 3) /\ faces_lh = << <<0, 1, 2>> >>
    /\ coords_rh = <<>> /\ faces_rh = <<>>
    /\ \E n \in 1 .. MaxTimes, t0 \in TminSet, dt \in TstepSet :
         \E d \in [0 .. 2 -> {Series(sh, n) : sh \in Shapes}] :
            stc = [tmin |-> t0, tstep |-> dt, n_times |-> n, data |-> d]
    /\ lims = <<1, 2, 3>>
    /\ InitHost

\* Geometry family: every pair of hemispheres (at most one triangle on the
\* left), one fixed source estimate.
InitGeom ==
    /\ \E nl \in VertCounts, nr \in VertCounts :
         /\ coords_lh = Verts("lh", nl) /\ coords_rh = Verts("rh", nr)
         /\ faces_lh \in FaceLists(nl, 1)
         /\ faces_rh \in FaceLists(nr, MaxFaces)
         /\ stc = [tmin |-> 0, tstep |-> 1, n_times |-> 2,
                   data |-> [v \in 0 .. nl + nr - 1 |->
                               Series(IF v % 2 = 0 THEN "rise" ELSE "fall", 2)]]
    /\ lims = <<0, 1, 2>>
    /\ InitHost

Init == InitData \/ InitGeom

HandlersKept(hs, h) == Append(hs, h)

\* bpy.app.handlers.frame_change_pre.clear(); ....append(my_handler)
HandlersAfterRun(hs, h) == Append(<<>>, h)

\* The script, lines 52-119: build the mesh, register the handler, call it.
RunScript ==
    /\ mesh < MaxRuns
    /\ \E fs \in {Faces(faces_lh, faces_rh, Len(coords_lh))} :
       \E out \in {MyHandler(stc, lims, fs, frame_current, fps)} :
          /\ coords' = Coords(coords_lh, coords_rh)
          /\ faces' = fs
          /\ mesh' = mesh + 1
          /\ handlers' = HandlersAfterRun(handlers, mesh + 1)
          /\ printed' = out.printed
          /\ interp_data' = out.interp_data
          /\ stc' = [stc EXCEPT !.data = out.data]
          /\ color_layer' = out.layer
          /\ updated' = TRUE
    /\ UNCHANGED <<coords_lh, faces_lh, coords_rh, faces_rh, lims,
                   frame_current, fps, n_updates>>

\* The host changes frame: it calls every handler of frame_change_pre.
\* Handlers of others do nothing here; a my_handler of an earlier run would
\* write to the earlier mesh, which is not tracked.
FrameChange(f, r) ==
    /\ frame_current' = f /\ fps' = r
    /\ n_updates' = Cardinality({i \in DOMAIN handlers : handlers[i] >= 1})
    /\ IF \E i \in DOMAIN handlers : handlers[i] = mesh /\ mesh >= 1
       THEN \E out \in {MyHandler(stc, lims, faces, f, r)} :
               /\ printed' = out.printed
               /\ interp_data' = out.interp_data
               /\ stc' = [stc EXCEPT !.data = out.data]
               /\ color_layer' = out.layer
               /\ updated' = TRUE
       ELSE UNCHANGED <<printed, interp_data, stc, color_layer, updated>>
    /\ UNCHANGED <<coords_lh, faces_lh, coords_rh, faces_rh, lims, coords,
                   faces, mesh, handlers>>

Next ==
    \/ RunScript
    \/ \E f \in Frames, r \in FpsSet : FrameChange(f, r)

Spec == Init /\ [][Next]_vars

(* ------------------------- claims: shorthands -------------------------- *)
\* The handler has run at least once (the script calls it at its end).
HandlerRan == mesh >= 1

SceneTime == CurrentTime(frame_current, fps)

FirstTime == Rat(Times(stc)[0], 1)

LastTime == Rat(Times(stc)[stc.n_times - 1], 1)

InRange(t) == RatLe(FirstTime, t) /\ RatLe(t, LastTime)

\* The colour layer's element for corner k (1..3) of triangle f (1..).
Corner(f, k) == color_layer[3 * (f - 1) + k]

(* ------------------------------- C1 ------------------------------------ *)
\* The reference linear interpolation of vertex v between samples fl < fr.
Reference(v, t, fl, fr) ==
    LET tl == Times(stc)[fl]
        tr == Times(stc)[fr]
        dl == stc.data[v][fl]
        dr == stc.data[v][fr]
    IN Rat(dl * t.den * (tr - tl) + (t.num - tl * t.den) * (dr - dl),
           t.den * (tr - tl))

\* C1: with at least two samples and the playback time within the sampled
\* range, the samples used are adjacent (or both the first), every vertex gets
\* the reference linear interpolation between them (the first column when
\* both are the first), and at a sample time the result is that sample's
\* column.
C1_LinearInterpolation ==
    (HandlerRan /\ stc.n_times >= 2 /\ InRange(SceneTime)) =>
        LET fl == printed.frame_left
            fr == printed.frame_right
        IN /\ fr = fl + 1 \/ (fl = 0 /\ fr = 0)
           /\ \A v \in DOMAIN stc.data :
                RatEq(interp_data[v],
                      IF fl = fr THEN Rat(stc.data[v][0], 1)
                      ELSE Reference(v, SceneTime, fl, fr))
           /\ \A i \in 0 .. stc.n_times - 1 :
                RatEq(SceneTime, Rat(Times(stc)[i], 1)) =>
                    \A v \in DOMAIN stc.data :
                        RatEq(interp_data[v], Rat(stc.data[v][i], 1))

\* The time lies strictly between the second and third samples, two units
\* apart, of a vertex whose activity differs there.
C1_Witness ==
    /\ HandlerRan /\ stc.n_times >= 3 /\ stc.tstep = 2
    /\ printed.frame_left = 1 /\ printed.frame_right = 2
    /\ ~RatLe(SceneTime, Rat(Times(stc)[1], 1))
    /\ ~RatLe(Rat(Times(stc)[2], 1), SceneTime)
    /\ \E v \in DOMAIN stc.data : stc.data[v][1] # stc.data[v][2]

(* ------------------------------- C2 ------------------------------------ *)
\* C2 as stated: for every playback time the selected samples bound it.
C2_BoundsEveryTime ==
    HandlerRan =>
        /\ RatLe(Rat(Times(stc)[printed.frame_left], 1), SceneTime)
        /\ RatLe(SceneTime, Rat(Times(stc)[printed.frame_right], 1))

\* C2 amended: the selected samples bound the playback time when it lies
\* within the sampled range; before the first sample both are the first
\* sample, after the last sample the right one is the last sample and the
\* left one its predecessor.
C2_BoundsWithinRange ==
    HandlerRan =>
        LET fl == printed.frame_left
            fr == printed.frame_right
        IN /\ InRange(SceneTime) =>
                /\ RatLe(Rat(Times(stc)[fl], 1), SceneTime)
                /\ RatLe(SceneTime, Rat(Times(stc)[fr], 1))
           /\ ~RatLe(FirstTime, SceneTime) => (fl = 0 /\ fr = 0)
           /\ ~RatLe(SceneTime, LastTime) =>
                (fr = stc.n_times - 1 /\ fl = Max(0, stc.n_times - 2))

\* A time strictly inside the range that is no sample time.
C2_Witness ==
    /\ HandlerRan /\ InRange(SceneTime)
    /\ \A i \in 0 .. stc.n_times - 1 : ~RatEq(SceneTime, Rat(Times(stc)[i], 1))
    /\ printed.frame_right = printed.frame_left + 1

(* ------------------------------- C3 ------------------------------------ *)
\* C3: for every frame number and fps the selected indices satisfy
\* 0 <= frame_left <= frame_right <= n_times - 1 and differ by at most one,
\* and the handler completes: it has a value for every vertex and has
\* written every element of the colour layer.
C3_IndicesInBounds ==
    HandlerRan =>
        /\ 0 <= printed.frame_left
        /\ printed.frame_left <= printed.frame_right
        /\ printed.frame_right <= stc.n_times - 1
        /\ printed.frame_right - printed.frame_left <= 1
        /\ DOMAIN interp_data = DOMAIN stc.data
        /\ Len(color_layer) = 3 * Len(faces)
        /\ updated

\* A frame-change event has called the handler for a time after the last
\* of three samples.
C3_Witness ==
    /\ HandlerRan /\ n_updates = 1
    /\ stc.n_times = 3 /\ ~RatLe(SceneTime, LastTime)
    /\ printed.frame_right = 2

(* ------------------------------- C4 ------------------------------------ *)
\* C4: the colour layer holds exactly 3 * |faces| colours of four channels,
\* corner k of triangle f holding the colour computed for vertex
\* faces[f][k], so a vertex shared by triangles has one colour in all.
C4_EveryCornerWritten ==
    HandlerRan =>
        /\ Len(color_layer) = 3 * Len(faces)
        /\ \A f \in 1 .. Len(faces), k \in 1 .. 3 :
             /\ Len(Corner(f, k)) = 4
             /\ Corner(f, k) = VertexColors(interp_data, lims)[faces[f][k]]
        /\ \A f \in 1 .. Len(faces), g \in 1 .. Len(faces), k \in 1 .. 3, m \in 1 .. 3 :
             faces[f][k] = faces[g][m] => Corner(f, k) = Corner(g, m)

\* Two triangles share a vertex, and a triangle has corners of two colours.
C4_Witness ==
    /\ HandlerRan
    /\ \E f \in 1 .. Len(faces), g \in 1 .. Len(faces), k \in 1 .. 3, m \in 1 .. 3 :
         f # g /\ faces[f][k] = faces[g][m]
    /\ \E f \in 1 .. Len(faces) : Corner(f, 1) # Corner(f, 3)

(* ------------------------------- C5 ------------------------------------ *)
\* C5 as stated: all four channels written for a corner are the colour
\* map's output for the vertex's interpolated value.
C5_AllChannelsMapped ==
    HandlerRan =>
        \A f \in 1 .. Len(faces), k \in 1 .. 3 :
            Corner(f, k) = ToRgba(interp_data[faces[f][k]], lims)

\* C5 amended: red, green and blue written for a corner are the colour
\* map's output for the vertex's interpolated value, and the alpha written is
\* one minus the colour map's alpha.
C5_AlphaInverted ==
    HandlerRan =>
        \A f \in 1 .. Len(faces), k \in 1 .. 3 :
            LET c == ToRgba(interp_data[faces[f][k]], lims)
            IN /\ Corner(f, k)[1] = c[1]
               /\ Corner(f, k)[2] = c[2]
               /\ Corner(f, k)[3] = c[3]
               /\ Corner(f, k)[4] = ChanOne - c[4]

\* A corner is written whose colour-map alpha is neither 0 nor 1.
C5_Witness ==
    /\ HandlerRan
    /\ \E f \in 1 .. Len(faces), k \in 1 .. 3 :
         LET a == ToRgba(interp_data[faces[f][k]], lims)[4]
         IN 0 < a /\ a < ChanOne /\ Corner(f, k)[4] # a

(* ------------------------------- C6 ------------------------------------ *)
\* C6: once the script has run, frame_change_pre holds exactly one entry,
\* the my_handler of the most recent run, and every frame-change event from
\* then on makes exactly one call of my_handler.
C6_OneHandler ==
    /\ [](HandlerRan => handlers = <<mesh>>)
    /\ [][(HandlerRan /\ mesh' = mesh) => n_updates' = 1]_vars

\* The script has run twice and a frame-change event has called the handler.
C6_Witness == mesh = 2 /\ n_updates = 1 /\ Len(handlers) = 1

(* ------------------------------- C7 ------------------------------------ *)
\* C7: the colour layer is the one my_handler computes from the loaded data
\* for the scene's current frame number and fps, whatever was played before.
C7_HistoryIndependent ==
    HandlerRan =>
        color_layer = MyHandler(stc, lims, faces, frame_current, fps).layer

\* The playback has jumped back from the initial frame.
C7_Witness ==
    /\ HandlerRan /\ n_updates = 1 /\ frame_current < 1
    /\ Len(color_layer) > 0

(* ------------------------------- C8 ------------------------------------ *)
\* C8: no step changes the activity matrix, the sample times or the
\* colour-map limits, and a frame-change event also leaves the geometry, the
\* loaded hemispheres and the handler list alone.
C8_LoadOnce ==
    [][/\ stc' = stc
       /\ lims' = lims
       /\ mesh' = mesh =>
            UNCHANGED <<coords, faces, handlers, coords_lh, faces_lh,
                        coords_rh, faces_rh>>]_vars

\* A frame-change event has called the handler, which marked the mesh.
C8_Witness ==
    /\ HandlerRan /\ n_updates = 1 /\ updated
    /\ frame_current = MaxFrame /\ Len(color_layer) > 0

(* ------------------------------- C9 ------------------------------------ *)
\* C9 as stated: for every playback time each vertex's value lies between
\* its activity at frame_left and at frame_right.
C9_NeverExtrapolates ==
    HandlerRan =>
        \A v \in DOMAIN stc.data :
            LET dl == stc.data[v][printed.frame_left]
                dr == stc.data[v][printed.frame_right]
            IN /\ RatLe(Rat(Min(dl, dr), 1), interp_data[v])
               /\ RatLe(interp_data[v], Rat(Max(dl, dr), 1))

(* ------------------------------- C10 ----------------------------------- *)
\* C10: the merged face list is the left list unchanged followed by the
\* right list shifted by the number of left vertices; left triangles use
\* only left vertices, right triangles only right ones, and every index is
\* a row of the merged vertex list and of the per-vertex data.
C10_MergeKeepsTopology ==
    HandlerRan =>
        LET nl == Len(coords_lh)
            nr == Len(coords_rh)
            ml == Len(faces_lh)
        IN /\ Len(coords) = nl + nr
           /\ Len(faces) = ml + Len(faces_rh)
           /\ \A f \in 1 .. ml :
                /\ faces[f] = faces_lh[f]
                /\ \A k \in 1 .. 3 : 0 <= faces[f][k] /\ faces[f][k] < nl
           /\ \A f \in 1 .. Len(faces_rh), k \in 1 .. 3 :
                /\ faces[ml + f][k] = faces_rh[f][k] + nl
                /\ nl <= faces[ml + f][k] /\ faces[ml + f][k] < nl + nr
           /\ \A f \in 1 .. Len(faces), k \in 1 .. 3 :
                /\ faces[f][k] + 1 \in DOMAIN coords
                /\ faces[f][k] \in DOMAIN interp_data
                /\ coords[faces[f][k] + 1][1] = coords[faces[f][1] + 1][1]

\* Both hemispheres contribute triangles, the left one four vertices.
C10_Witness ==
    /\ HandlerRan /\ Len(coords_lh) = 4
    /\ Len(faces_lh) >= 1 /\ Len(faces_rh) >= 2

====
